---- MODULE Spec2Model ----
(***************************************************************************)
(* LangChainService (app/services/langchain_service.py): the three-stage   *)
(* memory-formation pipeline answer -> analyze -> confirm, the save gate,  *)
(* save_memory's database session and load_memory.  Every method call is   *)
(* a sequence of steps of the calling thread, one step per blocking call   *)
(* (LLM request, database request).  Texts are sequences of one-character  *)
(* strings; literal parts of the f-strings are single elements.            *)
(***************************************************************************)
EXTENDS Integers, Sequences, FiniteSets, TLC

\* ------------------------------------------------------------------ bounds
\* Operations (service method calls and /ask/ requests) started in one run.
MaxOps == 2

\* Callers running service methods concurrently (request worker threads).
Threads == {"t1", "t2"}

\* ------------------------------------------------------------------- texts
None == <<"<None>">>

UpperLetters == <<"A","B","C","D","E","F","G","H","I","J","K","L","M",
                  "N","O","P","Q","R","S","T","U","V","W","X","Y","Z">>
LowerLetters == <<"a","b","c","d","e","f","g","h","i","j","k","l","m",
                  "n","o","p","q","r","s","t","u","v","w","x","y","z">>

\* str.lower() on one character
LowerChar(c) ==
    IF \E i \in 1..26 : UpperLetters[i] = c
    THEN LowerLetters[CHOOSE i \in 1..26 : UpperLetters[i] = c]
    ELSE c

\* str.lower()
Lower(s) == [i \in 1..Len(s) |-> LowerChar(s[i])]

\* needle in hay (Python substring test)
Contains(hay, needle) ==
    \E i \in 0..(Len(hay) - Len(needle)) :
        \A j \in 1..Len(needle) : hay[i + j] = needle[j]

YES == <<"y","e","s">>

\* a gate that accepts every confirmation
GateAlways(confirmation) == TRUE

\* same gate without the .lower() call
GateNoLower(confirmation) == Contains(confirmation, YES)

\* "yes" in confirmation.lower()
Gate(confirmation) == Contains(Lower(confirmation), YES)

\* a gate that lets every analysis through
TruthyAlways(analysis) == TRUE

\* `if analysis:` -- a str is falsy only when empty
Truthy(analysis) == Len(analysis) > 0

\* f"Question: {question}\nResponse: {response}\nShould this be remembered?"
FmtAnalyze(q, r) ==
    <<"Question: ">> \o q \o <<"\nResponse: ">> \o r
                     \o <<"\nShould this be remembered?">>

\* f"Analysis: {analysis}\nIs this a valid memory?"
FmtConfirm(a) == <<"Analysis: ">> \o a \o <<"\nIs this a valid memory?">>

\* ------------------------------------------------- inputs and LLM outputs
Questions == { <<"c","a","p","?">>, <<"y","e","s","?">> }

\* completions the Answerer's LLM call can produce
Responses == { <<"P","a","r","i","s">>, <<"Y","e","s">> }

\* completions of the Analyzer: empty, blank, and a judgment
Analyses == { <<>>, <<" ">>, <<"k","e","e","p">> }

\* completions of the Confirmer
Confirmations ==
    { <<"Y","E","S","!">>,
      <<"y","e","s","t","e","r","d","a","y">>,
      <<"N","o">> }

Completions(stg) ==
    CASE stg = "answer"  -> Responses
      [] stg = "analyze" -> Analyses
      [] stg = "confirm" -> Confirmations

\* ------------------------------------------------- Knowledge Memory Store
\* (subject, predicate, object) triples the extraction LLM can emit
T1 == <<"e1", "is", "v">>
T2 == <<"e1", "was", "v">>

\* outputs of the triple-extraction call of save_context, already parsed
TripleLists == { <<>>, <<T1>>, <<T2>> }

\* outputs of the entity-extraction call of load_memory_variables, parsed
EntityLists == { <<>>, <<"e1">> }

\* ConversationKGMemory(llm=llm, memory_key="history", input_key="input")
EmptyStore == [chat |-> <<>>, kg |-> {}]

\* kg.add_triple: a directed edge subject -> object carries one relation
AddTriple(kg, tr) ==
    { x \in kg : ~(x[1] = tr[1] /\ x[3] = tr[3]) } \cup {tr}

RECURSIVE AddTriples(_, _)
AddTriples(kg, trs) ==
    IF trs = <<>> THEN kg
    ELSE AddTriples(AddTriple(kg, Head(trs)), Tail(trs))

\* the "history" text of load_memory_variables: one "On <entity>: ..."
\* summary per extracted entity that has knowledge, "" when there is none
RECURSIVE History(_, _)
History(kg, es) ==
    IF es = <<>> THEN <<>>
    ELSE LET know == { x \in kg : x[1] = Head(es) }
         IN  (IF know = {} THEN <<>> ELSE << <<"On", Head(es), know>> >>)
             \o History(kg, Tail(es))

\* a load that also records the query in the chat buffer
LoadRecording(st, query) == [st EXCEPT !.chat = Append(@, <<query, <<>>>>)]

\* load_memory_variables leaves chat_memory and the graph as they are
StoreAfterLoad(st, query) == st

\* prompt.format(history=..., input=...) of the stage's template
Render(stg, hist, inp) == [template |-> stg, history |-> hist, input |-> inp]

\* ----------------------------------------------------------------- state
VARIABLES
    store,        \* service instance -> its ConversationKGMemory
    db,           \* committed rows of table "memories", in insertion order
    nOps,         \* operations started so far
    callers,      \* the threads that call the service in this run
    pc,           \* thread -> position in the running method
    op,           \* thread -> the method or request it runs
    svc,          \* thread -> the service instance it runs on
    stage,        \* thread -> the chain being run: answer, analyze, confirm
    args,         \* thread -> question, response, analysis, confirmation
    inp,          \* thread -> input text of the current chain call
    prompt,       \* thread -> prompt rendered for the current chain call
    ents,         \* thread -> entities the LLM extracted for that prompt
    gen,          \* thread -> text the LLM generated in the current call
    sess,         \* thread -> the SessionLocal() session of save_memory
    result,       \* thread -> how the finished operation ended
    ran,          \* thread -> chain calls started by the running operation
    saves,        \* thread -> save_memory calls made by the operation
    start,        \* thread -> store and db when the operation started
    foreign       \* thread -> did another thread change its store / the db

vars == <<store, db, nOps, callers, pc, op, svc, stage, args, inp, prompt,
          ents, gen, sess, result, ran, saves, start, foreign>>

Services == {"shared"} \cup Threads

NoArgs == [question |-> None, response |-> None, analysis |-> None,
           confirmation |-> None]

\* id of a Memory object that was never flushed (Python None)
NoId == 0

NoRow == [id |-> NoId, question |-> None, response |-> None,
          long_term |-> FALSE]

NoSession == [state |-> "none", pending |-> <<>>, rolledBack |-> FALSE,
              failed |-> "no", memory |-> NoRow]

\* db = SessionLocal()
SessionLocal == [state |-> "open", pending |-> <<>>, rolledBack |-> FALSE,
                 failed |-> "no", memory |-> NoRow]

NoResult == [kind |-> "none", value |-> None]

NoPrompt == [template |-> "none", history |-> <<>>, input |-> <<>>]

InitWith(cs) ==
    /\ callers = cs
    /\ store = [s \in Services |-> EmptyStore]
    /\ db = <<>>
    /\ nOps = 0
    /\ pc = [t \in Threads |-> "idle"]
    /\ op = [t \in Threads |-> "none"]
    /\ svc = [t \in Threads |-> "shared"]
    /\ stage = [t \in Threads |-> "none"]
    /\ args = [t \in Threads |-> NoArgs]
    /\ inp = [t \in Threads |-> <<>>]
    /\ prompt = [t \in Threads |-> NoPrompt]
    /\ ents = [t \in Threads |-> <<>>]
    /\ gen = [t \in Threads |-> None]
    /\ sess = [t \in Threads |-> NoSession]
    /\ result = [t \in Threads |-> NoResult]
    /\ ran = [t \in Threads |-> <<>>]
    /\ saves = [t \in Threads |-> <<>>]
    /\ start = [t \in Threads |-> [store |-> EmptyStore, db |-> <<>>]]
    /\ foreign = [t \in Threads |-> [store |-> FALSE, db |-> FALSE]]

\* one caller: operations follow one another
Init == InitWith({"t1"})

\* ------------------------------------------------------------- helpers
Idle(self) == pc[self] \in {"idle", "done"}

\* a caller starts method o on instance s with arguments a
Begin(self, o, s, a) ==
    /\ Idle(self)
    /\ self \in callers
    /\ nOps < MaxOps
    /\ nOps' = nOps + 1
    /\ op' = [op EXCEPT ![self] = o]
    /\ svc' = [svc EXCEPT ![self] = s]
    /\ args' = [args EXCEPT ![self] = a]
    /\ result' = [result EXCEPT ![self] = NoResult]
    /\ prompt' = [prompt EXCEPT ![self] = NoPrompt]
    /\ ents' = [ents EXCEPT ![self] = <<>>]
    /\ gen' = [gen EXCEPT ![self] = None]
    /\ store' = [store EXCEPT ![self] = EmptyStore]
    /\ UNCHANGED <<db, callers>>

\* agentN.predict(input=text, history=[]) is entered
EnterChain(self, stg, text, ranSoFar) ==
    /\ stage' = [stage EXCEPT ![self] = stg]
    /\ inp' = [inp EXCEPT ![self] = text]
    /\ ran' = [ran EXCEPT ![self] = Append(ranSoFar, stg)]
    /\ pc' = [pc EXCEPT ![self] = "prep"]

\* the method returns v to its caller
Return(self, v) ==
    /\ pc' = [pc EXCEPT ![self] = "done"]
    /\ result' = [result EXCEPT ![self] = [kind |-> "return", value |-> v]]

\* the exception raised by call `at` leaves the method
Raise(self, e, at) ==
    /\ pc' = [pc EXCEPT ![self] = "done"]
    /\ result' = [result EXCEPT ![self] =
                      [kind |-> "raise", value |-> <<e, at>>]]

\* bookkeeping of what each operation started from and of interference
Observe(self) ==
    /\ start' = [start EXCEPT ![self] =
           IF Idle(self) THEN [store |-> store'[svc'[self]], db |-> db']
           ELSE @]
    /\ foreign' = [u \in Threads |->
           IF u = self
           THEN (IF Idle(self) THEN [store |-> FALSE, db |-> FALSE]
                 ELSE foreign[u])
           ELSE [store |-> foreign[u].store
                           \/ store'[svc[u]] # store[svc[u]],
                 db |-> foreign[u].db \/ db' # db]]

\* ------------------------------------------------------ operations begin
\* POST /ask/: Depends() builds a LangChainService, then ask_question
RequestAsk(self) ==
    \E q \in Questions :
        /\ Begin(self, "ask", self, [NoArgs EXCEPT !.question = q])
        /\ EnterChain(self, "answer", q, <<>>)
        /\ saves' = [saves EXCEPT ![self] = <<>>]
        /\ sess' = [sess EXCEPT ![self] = NoSession]
        /\ Observe(self)

\* service.ask_question(question) on the shared instance
CallAsk(self) ==
    \E q \in Questions :
        /\ Begin(self, "ask", "shared", [NoArgs EXCEPT !.question = q])
        /\ EnterChain(self, "answer", q, <<>>)
        /\ saves' = [saves EXCEPT ![self] = <<>>]
        /\ sess' = [sess EXCEPT ![self] = NoSession]
        /\ Observe(self)

\* service.analyze_response(question, response)
CallAnalyze(self) ==
    \E q \in Questions, r \in Responses :
        /\ Begin(self, "analyze", "shared",
                 [NoArgs EXCEPT !.question = q, !.response = r])
        /\ EnterChain(self, "analyze", FmtAnalyze(q, r), <<>>)
        /\ saves' = [saves EXCEPT ![self] = <<>>]
        /\ sess' = [sess EXCEPT ![self] = NoSession]
        /\ Observe(self)

\* service.confirm_memory(analysis, question, response)
CallConfirm(self) ==
    \E a \in Analyses, q \in Questions, r \in Responses :
        /\ Begin(self, "confirm", "shared",
                 [NoArgs EXCEPT !.analysis = a, !.question = q,
                                !.response = r])
        /\ EnterChain(self, "confirm", FmtConfirm(a), <<>>)
        /\ saves' = [saves EXCEPT ![self] = <<>>]
        /\ sess' = [sess EXCEPT ![self] = NoSession]
        /\ Observe(self)

\* save_memory(question, response, long_term) is entered
EnterSave(self, q, r, lt, savesSoFar) ==
    /\ saves' = [saves EXCEPT ![self] = Append(savesSoFar, <<q, r, lt>>)]
    /\ sess' = [sess EXCEPT ![self] = SessionLocal]
    /\ pc' = [pc EXCEPT ![self] = "add"]

\* service.save_memory(question, response, long_term)
CallSave(self) ==
    \E q \in Questions, r \in Responses, lt \in BOOLEAN :
        /\ Begin(self, "save", "shared",
                 [NoArgs EXCEPT !.question = q, !.response = r])
        /\ EnterSave(self, q, r, lt, <<>>)
        /\ ran' = [ran EXCEPT ![self] = <<>>]
        /\ UNCHANGED <<stage, inp>>
        /\ Observe(self)

\* service.load_memory(query)
CallLoad(self) ==
    \E q \in Questions :
        /\ Begin(self, "load", "shared", NoArgs)
        /\ inp' = [inp EXCEPT ![self] = q]
        /\ pc' = [pc EXCEPT ![self] = "load"]
        /\ ran' = [ran EXCEPT ![self] = <<>>]
        /\ saves' = [saves EXCEPT ![self] = <<>>]
        /\ sess' = [sess EXCEPT ![self] = NoSession]
        /\ UNCHANGED stage
        /\ Observe(self)

\* a prep_inputs that keeps the history=[] the caller passed
PrepInputsEmptyHistory(self) ==
    /\ pc[self] = "prep"
    /\ \E es \in EntityLists :
        /\ prompt' = [prompt EXCEPT ![self] =
               Render(stage[self], <<>>, inp[self])]
        /\ ents' = [ents EXCEPT ![self] = es]
        /\ store' = [store EXCEPT ![svc[self]] = StoreAfterLoad(@, inp[self])]
    /\ pc' = [pc EXCEPT ![self] = "gen"]
    /\ UNCHANGED <<db, nOps, callers, op, svc, stage, args, inp, gen, sess,
                   result, ran, saves>>
    /\ Observe(self)

\* ------------------------------------------ one chain call (predict)
\* Chain.prep_inputs: memory.load_memory_variables(inputs) asks the LLM for
\* the entities of the input, reads their knowledge from the graph, and the
\* result replaces the history=[] the caller passed; the prompt is rendered
PrepInputs(self) ==
    /\ pc[self] = "prep"
    /\ \E es \in EntityLists :
        /\ prompt' = [prompt EXCEPT ![self] =
               Render(stage[self], History(store[svc[self]].kg, es),
                      inp[self])]
        /\ ents' = [ents EXCEPT ![self] = es]
        /\ store' = [store EXCEPT ![svc[self]] = StoreAfterLoad(@, inp[self])]
    /\ pc' = [pc EXCEPT ![self] = "gen"]
    /\ UNCHANGED <<db, nOps, callers, op, svc, stage, args, inp, gen, sess,
                   result, ran, saves>>
    /\ Observe(self)

\* the entity-extraction LLM call fails: predict raises
PrepInputsFails(self) ==
    /\ pc[self] = "prep"
    /\ Raise(self, "llm", "entities")
    /\ UNCHANGED <<store, db, nOps, callers, op, svc, stage, args, inp,
                   prompt, ents, gen, sess, ran, saves>>
    /\ Observe(self)

\* a failed completion that still records the exchange in the chat buffer
GenerateFailsRecording(self) ==
    /\ pc[self] = "gen"
    /\ Raise(self, "llm", "completion")
    /\ store' = [store EXCEPT ![svc[self]].chat =
                     Append(@, <<inp[self], <<>>>>)]
    /\ UNCHANGED <<db, nOps, callers, op, svc, stage, args, inp, prompt, ents,
                   gen, sess, ran, saves>>
    /\ Observe(self)

\* the completion LLM call fails: predict raises before prep_outputs
GenerateFails(self) ==
    /\ pc[self] = "gen"
    /\ Raise(self, "llm", "completion")
    /\ UNCHANGED <<store, db, nOps, callers, op, svc, stage, args, inp,
                   prompt, ents, gen, sess, ran, saves>>
    /\ Observe(self)

\* a completion whose exchange is not appended to the chat buffer
GenerateUnlogged(self) ==
    /\ pc[self] = "gen"
    /\ \E out \in Completions(stage[self]) :
        gen' = [gen EXCEPT ![self] = out]
    /\ prompt' = [prompt EXCEPT ![self] = NoPrompt]
    /\ ents' = [ents EXCEPT ![self] = <<>>]
    /\ pc' = [pc EXCEPT ![self] = "update"]
    /\ UNCHANGED <<store, db, nOps, callers, op, svc, stage, args, inp, sess,
                   result, ran, saves>>
    /\ Observe(self)

\* the LLM completes; prep_outputs -> memory.save_context appends the
\* exchange to chat_memory, then asks the LLM for knowledge triples
Generate(self) ==
    /\ pc[self] = "gen"
    /\ \E out \in Completions(stage[self]) :
        /\ gen' = [gen EXCEPT ![self] = out]
        /\ store' = [store EXCEPT ![svc[self]].chat =
                         Append(@, <<inp[self], out>>)]
    /\ prompt' = [prompt EXCEPT ![self] = NoPrompt]
    /\ ents' = [ents EXCEPT ![self] = <<>>]
    /\ pc' = [pc EXCEPT ![self] = "update"]
    /\ UNCHANGED <<db, nOps, callers, op, svc, stage, args, inp, sess, result,
                   ran, saves>>
    /\ Observe(self)

\* a failed triple extraction that undoes what its method wrote so far
UpdateFailsRestoring(self) ==
    /\ pc[self] = "update"
    /\ Raise(self, "llm", "triples")
    /\ store' = [store EXCEPT ![svc[self]] = start[self].store]
    /\ UNCHANGED <<db, nOps, callers, op, svc, stage, args, inp, prompt, ents,
                   gen, sess, ran, saves>>
    /\ Observe(self)

\* the triple-extraction LLM call of save_context fails: nothing catches
\* it, so predict raises although the text was generated
UpdateFails(self) ==
    /\ pc[self] = "update"
    /\ Raise(self, "llm", "triples")
    /\ UNCHANGED <<store, db, nOps, callers, op, svc, stage, args, inp,
                   prompt, ents, gen, sess, ran, saves>>
    /\ Observe(self)

\* a save_context that rebuilds the graph from the latest extraction
UpdateKGReplacing(self) ==
    \E trs \in TripleLists :
        store' = [store EXCEPT ![svc[self]].kg = AddTriples({}, trs)]

\* save_context ends: the extracted triples are added to the graph
UpdateKG(self) ==
    \E trs \in TripleLists :
        store' = [store EXCEPT ![svc[self]].kg = AddTriples(@, trs)]

\* long_term of a save that leaves it to the column default
ConfirmLongTermDefault == FALSE

\* confirm_memory saves with long_term=True
ConfirmLongTerm == TRUE

\* ask_question returning the analysis
AskReturnAnalysis(a) == a.analysis

\* ask_question: return response
AskReturn(a) == a.response

\* what the method that called save_memory / confirm_memory returns
MethodReturn(self, a) ==
    CASE op[self] = "ask"     -> AskReturn(a)
      [] op[self] = "confirm" -> None
      [] op[self] = "save"    -> sess[self].memory

\* an ask that goes from the Answerer straight to the Confirmer
AnswererSkipsAnalyzer(self) ==
    /\ pc[self] = "update"
    /\ stage[self] = "answer"
    /\ UpdateKG(self)
    /\ args' = [args EXCEPT ![self].response = gen[self]]
    /\ EnterChain(self, "confirm", FmtConfirm(gen[self]), ran[self])
    /\ UNCHANGED <<db, nOps, callers, op, svc, prompt, ents, gen, sess,
                   result, saves>>
    /\ Observe(self)

\* response = self.agent1.predict(...); analyze_response is entered
AnswererReturns(self) ==
    /\ pc[self] = "update"
    /\ stage[self] = "answer"
    /\ UpdateKG(self)
    /\ args' = [args EXCEPT ![self].response = gen[self]]
    /\ EnterChain(self, "analyze",
                  FmtAnalyze(args[self].question, gen[self]), ran[self])
    /\ UNCHANGED <<db, nOps, callers, op, svc, prompt, ents, gen, sess,
                   result, saves>>
    /\ Observe(self)

\* analysis = self.agent2.predict(...); `if analysis:` enters confirm_memory
AnalyzerReturns(self) ==
    /\ pc[self] = "update"
    /\ stage[self] = "analyze"
    /\ UpdateKG(self)
    /\ args' = [args EXCEPT ![self].analysis = gen[self]]
    /\ IF op[self] = "analyze"
       THEN /\ Return(self, gen[self])
            /\ UNCHANGED <<stage, inp, ran>>
       ELSE IF Truthy(gen[self])
       THEN /\ EnterChain(self, "confirm", FmtConfirm(gen[self]), ran[self])
            /\ UNCHANGED result
       ELSE /\ Return(self, AskReturn(args[self]))
            /\ UNCHANGED <<stage, inp, ran>>
    /\ UNCHANGED <<db, nOps, callers, op, svc, prompt, ents, gen, sess,
                   saves>>
    /\ Observe(self)

\* confirmation = self.agent3.predict(...); the gate calls save_memory
ConfirmerReturns(self) ==
    /\ pc[self] = "update"
    /\ stage[self] = "confirm"
    /\ UpdateKG(self)
    /\ args' = [args EXCEPT ![self].confirmation = gen[self]]
    /\ IF Gate(gen[self])
       THEN /\ EnterSave(self, args[self].question, args[self].response,
                         ConfirmLongTerm, saves[self])
            /\ UNCHANGED result
       ELSE /\ Return(self, MethodReturn(self, args[self]))
            /\ UNCHANGED <<sess, saves>>
    /\ UNCHANGED <<db, nOps, callers, op, svc, stage, inp, prompt, ents, gen,
                   ran>>
    /\ Observe(self)

\* ------------------------------------------------------- save_memory
\* the arguments of the running save_memory call
SaveArgs(self) == saves[self][Len(saves[self])]

\* what no step of save_memory touches
SessUnchanged ==
    UNCHANGED <<store, nOps, callers, op, svc, stage, args, inp, prompt,
                ents, gen, ran, saves>>

\* memory = Memory(question=..., response=..., long_term=...); db.add(memory)
Add(self) ==
    /\ pc[self] = "add"
    /\ LET memory == [id |-> NoId, question |-> SaveArgs(self)[1],
                      response |-> SaveArgs(self)[2],
                      long_term |-> SaveArgs(self)[3]]
       IN  sess' = [sess EXCEPT ![self].pending = Append(@, memory),
                                ![self].memory = memory]
    /\ pc' = [pc EXCEPT ![self] = "commit"]
    /\ UNCHANGED <<db, result>>
    /\ SessUnchanged
    /\ Observe(self)

\* constructing or adding the object raises: control goes to `except`
AddFails(self) ==
    /\ pc[self] = "add"
    /\ sess' = [sess EXCEPT ![self].failed = "add"]
    /\ pc' = [pc EXCEPT ![self] = "rollback"]
    /\ UNCHANGED <<db, result>>
    /\ SessUnchanged
    /\ Observe(self)

\* a commit that writes over the newest row instead of inserting one
CommitReplacing(self) ==
    /\ pc[self] = "commit"
    /\ LET at  == IF db = <<>> THEN 1 ELSE Len(db)
           row == [sess[self].memory EXCEPT !.id = at]
       IN  /\ db' = IF db = <<>> THEN <<row>> ELSE [db EXCEPT ![at] = row]
           /\ sess' = [sess EXCEPT ![self].pending = <<>>,
                                   ![self].memory = row]
    /\ pc' = [pc EXCEPT ![self] = "refresh"]
    /\ UNCHANGED result
    /\ SessUnchanged
    /\ Observe(self)

\* db.commit(): the pending row is inserted with the next id and is durable
Commit(self) ==
    /\ pc[self] = "commit"
    /\ LET row == [sess[self].memory EXCEPT !.id = Len(db) + 1]
       IN  /\ db' = Append(db, row)
           /\ sess' = [sess EXCEPT ![self].pending = <<>>,
                                   ![self].memory = row]
    /\ pc' = [pc EXCEPT ![self] = "refresh"]
    /\ UNCHANGED result
    /\ SessUnchanged
    /\ Observe(self)

\* db.commit() raises: nothing was written
CommitFails(self) ==
    /\ pc[self] = "commit"
    /\ sess' = [sess EXCEPT ![self].failed = "commit"]
    /\ pc' = [pc EXCEPT ![self] = "rollback"]
    /\ UNCHANGED <<db, result>>
    /\ SessUnchanged
    /\ Observe(self)

\* db.refresh(memory): the row is read back by its id
Refresh(self) ==
    /\ pc[self] = "refresh"
    /\ sess' = [sess EXCEPT ![self].memory = db[sess[self].memory.id]]
    /\ pc' = [pc EXCEPT ![self] = "close"]
    /\ UNCHANGED <<db, result>>
    /\ SessUnchanged
    /\ Observe(self)

\* db.refresh(memory) raises, after the commit
RefreshFails(self) ==
    /\ pc[self] = "refresh"
    /\ sess' = [sess EXCEPT ![self].failed = "refresh"]
    /\ pc' = [pc EXCEPT ![self] = "rollback"]
    /\ UNCHANGED <<db, result>>
    /\ SessUnchanged
    /\ Observe(self)

\* an except block that re-raises without db.rollback()
RollbackSkipped(self) ==
    /\ pc[self] = "rollback"
    /\ sess' = [sess EXCEPT ![self].pending = <<>>]
    /\ pc' = [pc EXCEPT ![self] = "close"]
    /\ UNCHANGED <<db, result>>
    /\ SessUnchanged
    /\ Observe(self)

\* except: db.rollback() discards what is pending; committed rows stay
Rollback(self) ==
    /\ pc[self] = "rollback"
    /\ sess' = [sess EXCEPT ![self].pending = <<>>,
                            ![self].rolledBack = TRUE]
    /\ pc' = [pc EXCEPT ![self] = "close"]
    /\ UNCHANGED <<db, result>>
    /\ SessUnchanged
    /\ Observe(self)

\* finally: db.close(); return memory, and the callers return
CloseReturn(self) ==
    /\ pc[self] = "close"
    /\ sess[self].failed = "no"
    /\ sess' = [sess EXCEPT ![self].state = "closed"]
    /\ Return(self, MethodReturn(self, args[self]))
    /\ UNCHANGED db
    /\ SessUnchanged
    /\ Observe(self)

\* a caller that catches the storage error and answers anyway
CloseRaiseSwallowed(self) ==
    /\ pc[self] = "close"
    /\ sess[self].failed # "no"
    /\ sess' = [sess EXCEPT ![self].state = "closed"]
    /\ Return(self, MethodReturn(self, args[self]))
    /\ UNCHANGED db
    /\ SessUnchanged
    /\ Observe(self)

\* finally: db.close(); raise e leaves save_memory and every caller
CloseRaise(self) ==
    /\ pc[self] = "close"
    /\ sess[self].failed # "no"
    /\ sess' = [sess EXCEPT ![self].state = "closed"]
    /\ Raise(self, "storage", sess[self].failed)
    /\ UNCHANGED db
    /\ SessUnchanged
    /\ Observe(self)

\* ------------------------------------------------------- load_memory
\* memory_data = self.memory.load_memory_variables({"input": query})
LoadMemory(self) ==
    /\ pc[self] = "load"
    /\ \E es \in EntityLists :
        Return(self, [history |-> History(store[svc[self]].kg, es)])
    /\ store' = [store EXCEPT ![svc[self]] = StoreAfterLoad(@, inp[self])]
    /\ UNCHANGED <<db, nOps, callers, op, svc, stage, args, inp, prompt, ents,
                   gen, sess, ran, saves>>
    /\ Observe(self)

\* the entity-extraction LLM call of load_memory_variables fails
LoadMemoryFails(self) ==
    /\ pc[self] = "load"
    /\ Raise(self, "llm", "entities")
    /\ UNCHANGED <<store, db, nOps, callers, op, svc, stage, args, inp,
                   prompt, ents, gen, sess, ran, saves>>
    /\ Observe(self)

\* ------------------------------------------------------ specification
Step(self) ==
    \/ RequestAsk(self)
    \/ CallAsk(self)
    \/ CallAnalyze(self)
    \/ CallConfirm(self)
    \/ CallSave(self)
    \/ CallLoad(self)
    \/ PrepInputs(self)
    \/ PrepInputsFails(self)
    \/ Generate(self)
    \/ GenerateFails(self)
    \/ UpdateFails(self)
    \/ AnswererReturns(self)
    \/ AnalyzerReturns(self)
    \/ ConfirmerReturns(self)
    \/ Add(self)
    \/ AddFails(self)
    \/ Commit(self)
    \/ CommitFails(self)
    \/ Refresh(self)
    \/ RefreshFails(self)
    \/ Rollback(self)
    \/ CloseReturn(self)
    \/ CloseRaise(self)
    \/ LoadMemory(self)
    \/ LoadMemoryFails(self)

Next == \E self \in Threads : Step(self)

Spec == Init /\ [][Next]_vars

\* ------------------------------------------- concurrent asks, one store
\* two callers run ask_question on the shared instance at the same time;
\* each asks its own question and the LLM's outputs come from smaller sets
ConcQuestion(t) ==
    IF t = "t1" THEN <<"c","a","p","?">> ELSE <<"y","e","s","?">>

ConcTexts ==
    { <<"P","a","r","i","s">>, <<>>, <<"k","e","e","p">>,
      <<"Y","E","S","!">>, <<"N","o">> }

ConcData ==
    \A t \in Threads :
        /\ args[t].question \in {None, ConcQuestion(t)}
        /\ gen[t] \in ConcTexts \cup {None}

InitConc == InitWith(Threads)

ConcCallAsk(self) == CallAsk(self) /\ ConcData'

ConcPrepInputs(self) == PrepInputs(self) /\ ConcData'

ConcPrepInputsFails(self) == PrepInputsFails(self) /\ ConcData'

ConcGenerate(self) == Generate(self) /\ ConcData'

ConcGenerateFails(self) == GenerateFails(self) /\ ConcData'

ConcUpdateFails(self) == UpdateFails(self) /\ ConcData'

ConcAnswererReturns(self) == AnswererReturns(self) /\ ConcData'

ConcAnalyzerReturns(self) == AnalyzerReturns(self) /\ ConcData'

ConcConfirmerReturns(self) == ConfirmerReturns(self) /\ ConcData'

ConcAdd(self) == Add(self) /\ ConcData'

ConcAddFails(self) == AddFails(self) /\ ConcData'

ConcCommit(self) == Commit(self) /\ ConcData'

ConcCommitFails(self) == CommitFails(self) /\ ConcData'

ConcRefresh(self) == Refresh(self) /\ ConcData'

ConcRefreshFails(self) == RefreshFails(self) /\ ConcData'

ConcRollback(self) == Rollback(self) /\ ConcData'

ConcCloseReturn(self) == CloseReturn(self) /\ ConcData'

ConcCloseRaise(self) == CloseRaise(self) /\ ConcData'

AskStep(self) ==
    \/ ConcCallAsk(self)
    \/ ConcPrepInputs(self)
    \/ ConcPrepInputsFails(self)
    \/ ConcGenerate(self)
    \/ ConcGenerateFails(self)
    \/ ConcUpdateFails(self)
    \/ ConcAnswererReturns(self)
    \/ ConcAnalyzerReturns(self)
    \/ ConcConfirmerReturns(self)
    \/ ConcAdd(self)
    \/ ConcAddFails(self)
    \/ ConcCommit(self)
    \/ ConcCommitFails(self)
    \/ ConcRefresh(self)
    \/ ConcRefreshFails(self)
    \/ ConcRollback(self)
    \/ ConcCloseReturn(self)
    \/ ConcCloseRaise(self)

NextConc == \E self \in Threads : AskStep(self)

SpecConc == InitConc /\ [][NextConc]_vars

\* ------------------------------------------------------------ claims
Done(t) == pc[t] = "done"

Returned(t) == Done(t) /\ result[t].kind = "return"

Raised(t) == Done(t) /\ result[t].kind = "raise"

RaisedAt(t, e, at) == Raised(t) /\ result[t].value = <<e, at>>

RanStage(t, stg) == \E i \in DOMAIN ran[t] : ran[t][i] = stg

\* the confirmation holds y, e, s in a row, in any letter case
HasYes(c) ==
    \E i \in 1..(Len(c) - 2) :
        /\ c[i] \in {"y", "Y"}
        /\ c[i + 1] \in {"e", "E"}
        /\ c[i + 2] \in {"s", "S"}

\* the exchanges the operation of t appended to its store's chat buffer,
\* in a run where no other caller wrote to that store
Wrote(t) ==
    SubSeq(store[svc[t]].chat, Len(start[t].store.chat) + 1,
           Len(store[svc[t]].chat))

\* the rows committed since the operation of t started
NewRows(t) == SubSeq(db, Len(start[t].db) + 1, Len(db))

\* the confirm chain returned a text to confirm_memory
Confirmed(t) == args[t].confirmation # None

\* C1: in an ask whose Confirmer returned a text that contains "yes" in any
\* letter case (as a substring), save_memory was called exactly once, with
\* the question given to ask, the text the Answerer generated in this ask
\* (the first exchange the ask logged), and long_term = TRUE.
C1_SaveOnYes ==
    \A t \in Threads :
        (op[t] = "ask" /\ Confirmed(t) /\ HasYes(args[t].confirmation))
        => /\ Len(saves[t]) = 1
           /\ saves[t][1][3] = TRUE
           /\ ~foreign[t].store
              => <<saves[t][1][1], saves[t][1][2]>> = Wrote(t)[1]

C1_Witness ==
    \E t \in Threads :
        /\ op[t] = "ask" /\ Returned(t)
        /\ args[t].confirmation = <<"Y","E","S","!">>
        /\ saves[t] = << <<args[t].question, args[t].response, TRUE>> >>
        /\ Len(NewRows(t)) = 1

\* C2: in an ask whose Confirmer returned a text without "yes" (in any
\* letter case), save_memory is never called and the table holds the rows
\* it held when the ask started.
C2_NoSaveWithoutYes ==
    \A t \in Threads :
        (op[t] = "ask" /\ Confirmed(t) /\ ~HasYes(args[t].confirmation))
        => /\ saves[t] = <<>>
           /\ sess[t].state = "none"
           /\ ~foreign[t].db => db = start[t].db

C2_Witness ==
    \E t \in Threads :
        /\ op[t] = "ask" /\ Returned(t)
        /\ args[t].confirmation = <<"N","o">>
        /\ db # <<>>

\* C3: in an ask whose Analyzer returned the empty string, the Confirmer
\* chain is never run and save_memory is never called.
C3_EmptyAnalysisStops ==
    \A t \in Threads :
        (op[t] = "ask" /\ args[t].analysis = <<>>)
        => /\ ~RanStage(t, "confirm")
           /\ saves[t] = <<>>
           /\ sess[t].state = "none"
           /\ ~foreign[t].db => db = start[t].db

C3_Witness ==
    \E t \in Threads :
        /\ op[t] = "ask" /\ Returned(t)
        /\ args[t].analysis = <<>>
        /\ ran[t] = <<"answer", "analyze">>

\* C4 as stated: every row of the table has long_term = TRUE, whatever
\* operations of the service ran.
C4_AllRowsLongTerm == \A i \in DOMAIN db : db[i].long_term = TRUE

\* C4: every save_memory call made by ask_question or confirm_memory
\* passes long_term = TRUE and every row such an operation commits has
\* long_term = TRUE, while a row committed by a direct save_memory call
\* carries the long_term it was called with.
C4_GateRowsLongTerm ==
    \A t \in Threads :
        /\ op[t] \in {"ask", "confirm"}
           => /\ \A i \in DOMAIN saves[t] : saves[t][i][3] = TRUE
              /\ ~foreign[t].db
                 => \A i \in DOMAIN NewRows(t) : NewRows(t)[i].long_term
        /\ (op[t] = "save" /\ ~foreign[t].db)
           => \A i \in DOMAIN NewRows(t) :
                  NewRows(t)[i].long_term = saves[t][1][3]

C4_Witness ==
    \E t \in Threads :
        /\ op[t] = "ask" /\ Returned(t)
        /\ Len(NewRows(t)) = 1
        /\ NewRows(t)[1].long_term
        /\ \E i \in DOMAIN start[t].db : ~start[t].db[i].long_term

\* C5: an ask that returns, returns the text the Answerer generated for its
\* question (the first exchange the ask logged), whether the analysis was
\* empty, the confirmation negative, or a row was saved.
C5_AskReturnsAnswer ==
    \A t \in Threads :
        (op[t] = "ask" /\ Returned(t) /\ ~foreign[t].store)
        => /\ Len(Wrote(t)) >= 2
           /\ Wrote(t)[1] = <<args[t].question, result[t].value>>

C5_Witness ==
    \E t \in Threads :
        /\ op[t] = "ask" /\ Returned(t)
        /\ result[t].value = <<"P","a","r","i","s">>
        /\ args[t].analysis = <<"k","e","e","p">>
        /\ Len(NewRows(t)) = 1

\* C6: an ask that got no text from the Answerer never returns: it raises;
\* and when the completion call of the Answerer failed, neither the
\* Analyzer nor the Confirmer ran, save_memory was not called, no row was
\* created and the store of the service is as it was before the ask.
C6_AnswererFailure ==
    \A t \in Threads :
        /\ (op[t] = "ask" /\ Done(t) /\ args[t].response = None)
           => Raised(t)
        /\ (op[t] = "ask" /\ RaisedAt(t, "llm", "completion")
               /\ args[t].response = None)
           => /\ ran[t] = <<"answer">>
              /\ saves[t] = <<>>
              /\ sess[t].state = "none"
              /\ ~foreign[t].db => db = start[t].db
              /\ ~foreign[t].store => store[svc[t]] = start[t].store

C6_Witness ==
    \E t \in Threads :
        /\ op[t] = "ask" /\ svc[t] = "shared"
        /\ RaisedAt(t, "llm", "completion")
        /\ ran[t] = <<"answer">>
        /\ start[t].store.chat # <<>>
        /\ start[t].store.kg # {}

\* C7 as stated: whenever save_memory raises, whichever of its calls
\* failed, the table holds the rows it held before the call.
C7_FailedSaveAddsNothing ==
    \A t \in Threads :
        (Raised(t) /\ result[t].value[1] = "storage" /\ ~foreign[t].db)
        => db = start[t].db

\* C8: when save_memory fails in an ask, ask raises the storage error
\* instead of returning the response, and save_memory was called once.
C8_SaveFailurePropagates ==
    \A t \in Threads :
        (op[t] = "ask" /\ Done(t) /\ sess[t].failed # "no")
        => /\ Raised(t)
           /\ result[t].value = <<"storage", sess[t].failed>>
           /\ Len(saves[t]) = 1
           /\ sess[t].rolledBack

C8_Witness ==
    \E t \in Threads :
        /\ op[t] = "ask"
        /\ RaisedAt(t, "storage", "commit")
        /\ args[t].response = <<"P","a","r","i","s">>
        /\ HasYes(args[t].confirmation)

\* C9 as stated: a chain call whose completion succeeded returns its text
\* even when the store update that follows fails, so no operation ends
\* with the exception of the update.
C9_UpdateFailureAbsorbed ==
    \A t \in Threads : ~RaisedAt(t, "llm", "triples")

\* C10 as stated: every load_memory call returns a mapping and leaves the
\* store and the table unchanged.
C10_LoadAlwaysSucceeds ==
    \A t \in Threads :
        (op[t] = "load" /\ Done(t))
        => /\ Returned(t)
           /\ ~foreign[t].store => store[svc[t]] = start[t].store
           /\ ~foreign[t].db => db = start[t].db

\* C10: load_memory never changes the store or the table, in every state
\* including before any update; when it returns, it returns the mapping
\* {"history": text} rendered from the store's graph for the entities the
\* LLM extracted from the query (empty before any update), and it raises
\* only when that extraction call fails.
C10_LoadIsPureRead ==
    \A t \in Threads :
        (op[t] = "load" /\ Done(t))
        => /\ ~foreign[t].store => store[svc[t]] = start[t].store
           /\ ~foreign[t].db => db = start[t].db
           /\ Returned(t)
              => /\ \E es \in EntityLists :
                       result[t].value =
                           [history |-> History(start[t].store.kg, es)]
                 /\ start[t].store.kg = {}
                    => result[t].value = [history |-> <<>>]
           /\ Raised(t) => result[t].value = <<"llm", "entities">>

C10_Witness ==
    \E t \in Threads :
        /\ op[t] = "load" /\ Returned(t)
        /\ result[t].value.history # <<>>
        /\ store[svc[t]].chat # <<>>

\* C11: a save_memory call that returns has added exactly one row, returns
\* that row, the row has an id and carries the question, response and
\* long_term of the call; and no step of any operation changes or removes
\* a row that is already in the table
C11_SaveAddsOneRow ==
    /\ [](\A t \in Threads :
            (op[t] = "save" /\ Returned(t) /\ ~foreign[t].db) =>
                /\ Len(NewRows(t)) = 1
                /\ result[t].value = NewRows(t)[1]
                /\ result[t].value.id # NoId
                /\ result[t].value.question = saves[t][1][1]
                /\ result[t].value.response = saves[t][1][2]
                /\ result[t].value.long_term = saves[t][1][3])
    /\ [][\A i \in DOMAIN db : i \in DOMAIN db' /\ db'[i] = db[i]]_vars

\* a second save_memory returned, with long_term False, next to an older row
C11_Witness ==
    \E t \in Threads :
        /\ op[t] = "save"
        /\ Returned(t)
        /\ Len(start[t].db) = 1
        /\ Len(db) = 2
        /\ result[t].value.long_term = FALSE
        /\ result[t].value.id = 2


\* C12: in an ask whose Analyzer returned a blank text (one space), the
\* Confirmer chain is not run and save_memory is not called
C12_BlankAnalysisStops ==
    \A t \in Threads :
        (op[t] = "ask" /\ args[t].analysis = <<" ">>) =>
            /\ ~RanStage(t, "confirm")
            /\ saves[t] = <<>>

\* the chain calls an ask may have entered so far, in the order of the code
StageOrders ==
    { <<"answer">>, <<"answer", "analyze">>,
      <<"answer", "analyze", "confirm">> }

\* C13: in an ask the chains are entered in the order answer, analyze,
\* confirm, none twice; the Analyzer is entered only when the Answerer's
\* text is there and its exchange is in the store, the Confirmer only when
\* the Analyzer's is; save_memory is entered at most once and only with the
\* Confirmer's text; no session is open while a chain runs; and ask returns
\* only with the session closed and the row committed
C13_StagesInOrder ==
    \A t \in Threads :
        op[t] = "ask" =>
            /\ ran[t] \in StageOrders
            /\ stage[t] = ran[t][Len(ran[t])]
            /\ Len(ran[t]) >= 2 =>
                   /\ args[t].response # None
                   /\ ~foreign[t].store =>
                          /\ Len(Wrote(t)) >= 1
                          /\ Wrote(t)[1] =
                                 <<args[t].question, args[t].response>>
            /\ Len(ran[t]) >= 3 =>
                   /\ args[t].analysis # None
                   /\ ~foreign[t].store =>
                          /\ Len(Wrote(t)) >= 2
                          /\ Wrote(t)[2] =
                                 <<FmtAnalyze(args[t].question,
                                              args[t].response),
                                   args[t].analysis>>
            /\ saves[t] # <<>> =>
                   /\ Len(saves[t]) = 1
                   /\ Len(ran[t]) = 3
                   /\ Confirmed(t)
                   /\ ~foreign[t].store => Len(Wrote(t)) = 3
            /\ pc[t] \in {"prep", "gen", "update"} =>
                   /\ sess[t].state = "none"
                   /\ saves[t] = <<>>
            /\ (Returned(t) /\ saves[t] # <<>>) =>
                   /\ sess[t].state = "closed"
                   /\ ~foreign[t].db => Len(NewRows(t)) = 1

\* an ask ran all three chains and the insert, and returned
C13_Witness ==
    \E t \in Threads :
        /\ op[t] = "ask"
        /\ Returned(t)
        /\ ran[t] = <<"answer", "analyze", "confirm">>
        /\ Len(saves[t]) = 1
        /\ Len(NewRows(t)) = 1
        /\ Len(Wrote(t)) = 3

\* C14: an ask that failed in an LLM call has, for the chain that failed,
\* no exchange in the store (each chain before it wrote one), entered no
\* later chain, did not call save_memory, and raised
C14_LlmFailureNoUpdate ==
    \A t \in Threads :
        (op[t] = "ask" /\ Raised(t) /\ result[t].value[1] = "llm"
         /\ ~foreign[t].store) =>
            /\ Len(Wrote(t)) = Len(ran[t]) - 1
            /\ saves[t] = <<>>
            /\ db = start[t].db


\* the exchanges of the chains of t's ask that have returned, in order
OwnExchanges(t) ==
    (IF args[t].response = None THEN <<>>
     ELSE << <<args[t].question, args[t].response>> >>)
    \o (IF args[t].analysis = None THEN <<>>
        ELSE << <<FmtAnalyze(args[t].question, args[t].response),
                  args[t].analysis>> >>)
    \o (IF args[t].confirmation = None THEN <<>>
        ELSE << <<FmtConfirm(args[t].analysis), args[t].confirmation>> >>)

\* a occurs in b, in order, possibly with other elements in between
RECURSIVE IsSubseq(_, _)
IsSubseq(a, b) ==
    IF a = <<>> THEN TRUE
    ELSE IF b = <<>> THEN FALSE
    ELSE IF Head(a) = Head(b) THEN IsSubseq(Tail(a), Tail(b))
    ELSE IsSubseq(a, Tail(b))

C16_OneSharedStore ==
    \A t \in Threads :
        (op[t] = "ask" /\ ~Idle(t)) =>
            /\ svc[t] = "shared"
            /\ \A s \in Services :
                   IsSubseq(store[s].chat, store[svc[t]].chat)

Rebuilt(s) == s \in Threads /\ Idle(s) /\ pc'[s] \notin {"idle", "done"}

C18_EmptyHistory ==
    \A t \in Threads :
        (op[t] = "ask" /\ pc[t] = "gen") => prompt[t].history = <<>>

\* C18: the prompt a chain sends to the LLM is its template rendered with
\* its input text and with the store's knowledge about the entities the
\* LLM extracted from that input
C18_PromptFromStore ==
    \A t \in Threads :
        (pc[t] = "gen" /\ ~foreign[t].store) =>
            /\ prompt[t].template = stage[t]
            /\ prompt[t].input = inp[t]
            /\ prompt[t].history = History(store[svc[t]].kg, ents[t])
            /\ (ents[t] = <<"e1">> /\ store[svc[t]].kg # {}) =>
                   prompt[t].history # <<>>

\* the Analyzer of an ask gets a prompt that carries a fact of the store
C18_Witness ==
    \E t \in Threads :
        /\ op[t] = "ask"
        /\ pc[t] = "gen"
        /\ stage[t] = "analyze"
        /\ prompt[t].history = << <<"On", "e1", {T1}>> >>

\* C19: an ask that raised after its Answerer returned leaves the
\* Answerer's exchange, and the exchange of every later chain that
\* returned, in the store, which so differs from the store the ask started
\* with; unless the failure was in db.refresh the table has no new row
C19_FailedAskKeepsUpdates ==
    \A t \in Threads :
        (op[t] = "ask" /\ Raised(t) /\ args[t].response # None
         /\ ~foreign[t].store) =>
            /\ IsSubseq(OwnExchanges(t), Wrote(t))
            /\ Len(Wrote(t)) >= 1
            /\ store[svc[t]] # start[t].store
            /\ (result[t].value # <<"storage", "refresh">>
                /\ ~foreign[t].db) => NewRows(t) = <<>>

\* an ask failed at the Confirmer's completion: two exchanges stay, no row
C19_Witness ==
    \E t \in Threads :
        /\ op[t] = "ask"
        /\ RaisedAt(t, "llm", "completion")
        /\ stage[t] = "confirm"
        /\ Len(Wrote(t)) = 2
        /\ NewRows(t) = <<>>

\* C20: a session is open only while save_memory runs; when the method
\* that entered save_memory has returned or raised, the session is closed;
\* a storage error is raised only after the rollback; a save that returns
\* did not roll back
C20_SessionsClosed ==
    \A t \in Threads :
        /\ sess[t].state \in {"none", "open", "closed"}
        /\ sess[t].state = "open" <=>
               pc[t] \in {"add", "commit", "refresh", "rollback", "close"}
        /\ (Done(t) /\ saves[t] # <<>>) => sess[t].state = "closed"
        /\ (Raised(t) /\ result[t].value[1] = "storage") =>
               /\ sess[t].state = "closed"
               /\ sess[t].rolledBack
               /\ sess[t].pending = <<>>
        /\ (Returned(t) /\ saves[t] # <<>>) => ~sess[t].rolledBack

\* a save_memory whose commit failed has raised, rolled back and closed
C20_Witness ==
    \E t \in Threads :
        /\ op[t] = "save"
        /\ RaisedAt(t, "storage", "commit")
        /\ sess[t].rolledBack
        /\ sess[t].state = "closed"


====
